---- MODULE Spec2Model ----
(***************************************************************************)
(* Access-control state machine of the AQI monitoring station              *)
(* (src/unnamed/part_000): the globals isLocked / isDisabled /             *)
(* failedAttempts, the NVS key "fails", setup(), and the control loop      *)
(* loop() = checkManualButton(); checkLoRaPassword(); then one of          *)
(* triggerSystemLockdown() / showLockScreen() / runSecureMonitor().        *)
(*                                                                         *)
(* A radio payload is a sequence of one-character strings.  The empty      *)
(* sequence stands for "LoRa.parsePacket() returned 0" (no packet, or a    *)
(* packet with an empty body).                                             *)
(*                                                                         *)
(* The key fob (src/Key_FOB_ESP.ino) runs beside the station: its loop()   *)
(* polls its buttons, then its serial console.                             *)
(***************************************************************************)
EXTENDS Integers, Sequences, FiniteSets, TLC

(* ---------------------------------------------------------------------- *)
(* Program constants                                                       *)
(* ---------------------------------------------------------------------- *)
MAX_ATTEMPTS == 3

consolePassword == <<"a", "d", "m", "i", "n">>

(* ---------------------------------------------------------------------- *)
(* Bounds of the model                                                     *)
(* ---------------------------------------------------------------------- *)
\* failedAttempts++ is an unbounded int in the code; the model stops
\* counting violations at MaxFails.
MaxFails == 5

\* The longest hold of a button, in polls of the wait-for-release loops
\* (delay(50) each), that the model distinguishes.
MaxHold == 2

\* Packets of the fob that can be on the air, sent and not yet received or
\* lost, at one time.
MaxAir == 1

(* ---------------------------------------------------------------------- *)
(* Inputs                                                                  *)
(* ---------------------------------------------------------------------- *)
\* Characters removed by String::trim() (isspace).
Whitespace == {" ", "\n", "\t", "\r"}

\* Radio payloads offered to LoRa.parsePacket()/LoRa.read().
Payloads ==
  { <<>>,
    <<"a", "d", "m", "i", "n">>,
    <<" ", "a", "d", "m", "i", "n", "\n">>,
    <<"A", "d", "m", "i", "n">>,
    <<"a", "d", "m", "i", "n", "1">>,
    <<"a", "d", "m", " ", "i", "n">>,
    <<"w", "r", "o", "n", "g">>,
    <<" ", "\n">> }

\* Lines offered to the fob's Serial.readStringUntil('\n'); <<>> when
\* Serial.available() is 0 or the line is empty.
ConsoleLines ==
  { <<>>,
    <<"a", "d", "m", "i", "n">>,
    <<"a", "d", "m", "i", "n", "\r">>,
    <<" ", "o", "p", "e", "n", " ">>,
    <<" ", "\r">> }

VARIABLES
  isLocked,         \* bool isLocked
  isDisabled,       \* bool isDisabled
  failedAttempts,   \* int failedAttempts
  nvs,              \* value of key "fails" in namespace "sec_log"; -1 = key absent
  storeOk,          \* TRUE while writes to the NVS partition commit
  pc,               \* position of the firmware: "setup", then inside loop()
  pressed,          \* the firmware's latest button reading: BOOT in setup(),
                    \* BOOT or USER in checkManualButton()
  received,         \* the payload checkLoRaPassword() read this tick (before trim)
  effects,          \* what the last handler did, in statement order
  buzzer,           \* level of BUZZER_PIN
  streak,           \* history: non-matching packets handled while Locked since
                    \* the machine was last in Locked{0} in this boot session;
                    \* -1 when no such run is in progress
  held,             \* polls of checkManualButton()'s wait-for-release loop
                    \* that read LOW, for the press it handled last
  fobPc,            \* position of the fob in its loop(): "button" or "console"
  fobPressed,       \* what the fob's button poll read in its last step
  fobHeld,          \* polls of the fob's wait-for-release loop that read LOW
  fobLine,          \* the console line the fob read in its last step (before trim)
  fobOut,           \* the packets the fob sent in its last step, in order
  air,              \* the fob's packets on the air, oldest first, each with
                    \* the method of the fob that sent it
  rxSrc             \* where the packet checkLoRaPassword() read this tick came
                    \* from: "none", "button" or "console" (the fob), "other"

stationVars == <<isLocked, isDisabled, failedAttempts, nvs, storeOk, pc, pressed,
                 received, effects, buzzer, streak, held>>

fobVars == <<fobPc, fobPressed, fobHeld, fobLine, fobOut>>

vars == <<isLocked, isDisabled, failedAttempts, nvs, storeOk, pc, pressed,
          received, effects, buzzer, streak, held,
          fobPc, fobPressed, fobHeld, fobLine, fobOut, air, rxSrc>>

linkVars == <<air, rxSrc>>

(* ---------------------------------------------------------------------- *)
(* The three states of the specification's SecurityState, read off the     *)
(* two flags                                                               *)
(* ---------------------------------------------------------------------- *)
Disabled == isDisabled
Locked   == isLocked /\ ~isDisabled
Unlocked == ~isLocked /\ ~isDisabled

(* ---------------------------------------------------------------------- *)
(* Pure helpers                                                            *)
(* ---------------------------------------------------------------------- *)
RECURSIVE TrimLeft(_)
TrimLeft(s) ==
  IF s # <<>> /\ Head(s) \in Whitespace THEN TrimLeft(Tail(s)) ELSE s

RECURSIVE TrimRight(_)
TrimRight(s) ==
  IF s # <<>> /\ s[Len(s)] \in Whitespace
    THEN TrimRight(SubSeq(s, 1, Len(s) - 1))
    ELSE s

\* String::trim() as called on the received payload
Trim_LeftOnly(s) == TrimLeft(s)
Trim(s) == TrimRight(TrimLeft(s))

\* received.equals(consolePassword), after received.trim()
Matches(payload) == Trim(payload) = consolePassword

\* securityLog.getInt("fails", 0) on a store holding v
GetInt(v) == IF v = -1 THEN 0 ELSE v

\* The persisted violation counter
Persisted == GetInt(nvs)

\* securityLog.putInt("fails", v): the stored value afterwards
PutInt(v) == IF storeOk THEN v ELSE nvs

\* securityLog.clear() in the factory reset: the stored value afterwards
Clear_Keeps == nvs
Clear == IF storeOk THEN -1 ELSE nvs

\* setup(): if (failedAttempts >= MAX_ATTEMPTS) isDisabled = true
BootDisables_Gt(n) == n > MAX_ATTEMPTS
BootDisables(n) == n >= MAX_ATTEMPTS

\* checkLoRaPassword(): if (failedAttempts >= MAX_ATTEMPTS) isDisabled = true
WrongDisables_Gt(n) == n > MAX_ATTEMPTS
WrongDisables(n) == n >= MAX_ATTEMPTS

\* checkLoRaPassword(): the guard of the violation branch, if (isLocked)
CountsAsViolation_Always == TRUE
CountsAsViolation == isLocked

\* connectToWiFi(): what it prints, by whether the access point answers
ConnectToWiFi(up) ==
  <<"lcd:>> CONNECTING...">> \o
  (IF up THEN <<"lcd:>> UPLINK OK">> ELSE <<"lcd:ERR: NO WIFI">>)

\* The history variable after a handler that was not a violation
StreakAfter(locked, disabled, fails) ==
  IF locked /\ ~disabled /\ fails = 0 THEN 0 ELSE -1

(* ---------------------------------------------------------------------- *)
(* Initial state: power applied to a board whose NVS is empty              *)
(* ---------------------------------------------------------------------- *)
Init ==
  /\ isLocked = TRUE
  /\ isDisabled = FALSE
  /\ failedAttempts = 0
  /\ nvs = -1
  /\ storeOk = TRUE
  /\ pc = "setup"
  /\ pressed = FALSE
  /\ received = <<>>
  /\ effects = <<>>
  /\ buzzer = FALSE
  /\ streak = -1
  /\ held = 0
  /\ fobPc = "button"
  /\ fobPressed = FALSE
  /\ fobHeld = 0
  /\ fobLine = <<>>
  /\ fobOut = <<>>
  /\ air = <<>>
  /\ rxSrc = "none"

(* ---------------------------------------------------------------------- *)
(* Power cycle or reset: RAM goes back to the initialisers, NVS is kept    *)
(* ---------------------------------------------------------------------- *)
Restart ==
  /\ pc # "setup"
  /\ isLocked' = TRUE
  /\ isDisabled' = FALSE
  /\ failedAttempts' = 0
  /\ pc' = "setup"
  /\ pressed' = FALSE
  /\ received' = <<>>
  /\ effects' = <<>>
  /\ buzzer' = FALSE
  /\ streak' = -1
  /\ held' = 0
  /\ rxSrc' = "none"
  /\ UNCHANGED <<nvs, storeOk, air>>
  /\ UNCHANGED fobVars

(* ---------------------------------------------------------------------- *)
(* setup(): bootLow is digitalRead(BOOT_BUTTON) == LOW                     *)
(* ---------------------------------------------------------------------- *)
Setup(bootLow) ==
  /\ pc = "setup"
  /\ LET store == IF bootLow THEN Clear ELSE nvs
         c     == GetInt(store)
     IN  /\ nvs' = store
         /\ failedAttempts' = c
         /\ isDisabled' = BootDisables(c)
         /\ effects' = (IF bootLow THEN <<"oled:FACTORY RESET", "clear", "buzzer">>
                                   ELSE <<>>)
                       \o <<"getInt", "buzzer", "lcd:>> AIR-GAPPED">>
         /\ streak' = StreakAfter(isLocked, isDisabled', failedAttempts')
  /\ pressed' = bootLow
  /\ pc' = "button"
  /\ UNCHANGED <<isLocked, storeOk, received, buzzer, held>>
  /\ UNCHANGED fobVars
  /\ UNCHANGED linkVars

(* ---------------------------------------------------------------------- *)
(* performRemoteLock()                                                     *)
(* ---------------------------------------------------------------------- *)
PerformRemoteLock_NoFlag ==
  /\ isLocked' = isLocked
  /\ effects' = <<"wifi:off", "lcd:>> SYSTEM LOCKED", "buzzer">>
  /\ UNCHANGED <<failedAttempts, nvs, isDisabled>>

PerformRemoteLock ==
  /\ isLocked' = TRUE
  /\ effects' = <<"wifi:off", "lcd:>> SYSTEM LOCKED", "buzzer">>
  /\ UNCHANGED <<failedAttempts, nvs, isDisabled>>

(* ---------------------------------------------------------------------- *)
(* checkManualButton(): the branch taken when a button reads LOW           *)
(* ---------------------------------------------------------------------- *)
ManualUnlock_KeepsCount(wifiUp) ==
  /\ isLocked' = FALSE
  /\ failedAttempts' = failedAttempts
  /\ nvs' = nvs
  /\ effects' = <<"putInt", "lcd:>> MANUAL UNLOCK", "buzzer">> \o ConnectToWiFi(wifiUp)
  /\ UNCHANGED isDisabled

ManualUnlock_NotifyFirst(wifiUp) ==
  /\ isLocked' = FALSE
  /\ failedAttempts' = 0
  /\ nvs' = PutInt(0)
  /\ effects' = <<"lcd:>> MANUAL UNLOCK", "putInt", "buzzer">> \o ConnectToWiFi(wifiUp)
  /\ UNCHANGED isDisabled

ManualUnlock(wifiUp) ==
  /\ isLocked' = FALSE
  /\ failedAttempts' = 0
  /\ nvs' = PutInt(0)
  /\ effects' = <<"putInt", "lcd:>> MANUAL UNLOCK", "buzzer">> \o ConnectToWiFi(wifiUp)
  /\ UNCHANGED isDisabled

\* checkManualButton() with the toggle inside the wait loop: one toggle at
\* the first poll and one more per poll that still reads LOW
CheckManualButton_TogglesWhileHeld(bootLow, userLow, wifiUp, holdPolls) ==
  /\ pc = "button"
  /\ pressed' = (bootLow \/ userLow)
  /\ held' = IF bootLow \/ userLow THEN holdPolls ELSE 0
  /\ IF bootLow \/ userLow
       THEN /\ IF holdPolls % 2 = 0
                 THEN IF isLocked THEN ManualUnlock(wifiUp) ELSE PerformRemoteLock
                 ELSE /\ isLocked' = isLocked
                      /\ failedAttempts' = 0
                      /\ nvs' = PutInt(0)
                      /\ effects' = <<"putInt", "lcd:>> MANUAL UNLOCK",
                                      "lcd:>> SYSTEM LOCKED">>
                      /\ UNCHANGED isDisabled
            /\ streak' = StreakAfter(isLocked', isDisabled', failedAttempts')
       ELSE /\ effects' = <<>>
            /\ UNCHANGED <<isLocked, isDisabled, failedAttempts, nvs, streak>>
  /\ pc' = "radio"
  /\ UNCHANGED <<storeOk, received, buzzer>>
  /\ UNCHANGED fobVars
  /\ UNCHANGED linkVars

\* bootLow, userLow: the levels of BOOT_BUTTON and USER_BUTTON at the poll;
\* holdPolls: how many polls of the wait loop (line 278) read LOW before
\* both buttons are released.  The handler returns only then.
CheckManualButton(bootLow, userLow, wifiUp, holdPolls) ==
  /\ pc = "button"
  /\ pressed' = (bootLow \/ userLow)
  /\ held' = IF bootLow \/ userLow THEN holdPolls ELSE 0
  /\ IF bootLow \/ userLow
       THEN /\ IF isLocked THEN ManualUnlock(wifiUp) ELSE PerformRemoteLock
            /\ streak' = StreakAfter(isLocked', isDisabled', failedAttempts')
       ELSE /\ effects' = <<>>
            /\ UNCHANGED <<isLocked, isDisabled, failedAttempts, nvs, streak>>
  /\ pc' = "radio"
  /\ UNCHANGED <<storeOk, received, buzzer>>
  /\ UNCHANGED fobVars
  /\ UNCHANGED linkVars

(* ---------------------------------------------------------------------- *)
(* checkLoRaPassword()                                                     *)
(* ---------------------------------------------------------------------- *)
\* the stored value after the unlock branch's putInt("fails", 0)
RadioUnlockPut_Skipped == nvs
RadioUnlockPut == PutInt(0)

RadioUnlock(wifiUp) ==
  /\ isLocked' = FALSE
  /\ failedAttempts' = 0
  /\ nvs' = RadioUnlockPut
  /\ effects' = <<"putInt", "lcd:>> ACCESS GRANTED", "buzzer", "buzzer">>
                \o ConnectToWiFi(wifiUp)
  /\ UNCHANGED isDisabled

RadioViolation_NoCount ==
  /\ failedAttempts < MaxFails
  /\ failedAttempts' = failedAttempts
  /\ nvs' = PutInt(failedAttempts)
  /\ isDisabled' = (isDisabled \/ WrongDisables(failedAttempts))
  /\ effects' = <<"putInt">>
  /\ UNCHANGED isLocked

RadioViolation ==
  /\ failedAttempts < MaxFails
  /\ failedAttempts' = failedAttempts + 1
  /\ nvs' = PutInt(failedAttempts + 1)
  /\ isDisabled' = (isDisabled \/ WrongDisables(failedAttempts + 1))
  /\ effects' = <<"putInt">>
  /\ UNCHANGED isLocked

\* payload: the bytes LoRa.read() returns; <<>> when parsePacket() returns 0
CheckLoRaPassword(payload, wifiUp) ==
  /\ pc = "radio"
  /\ received' = payload
  /\ IF Len(payload) = 0
       THEN /\ effects' = <<>>
            /\ UNCHANGED <<isLocked, isDisabled, failedAttempts, nvs, streak>>
       ELSE IF Matches(payload)
         THEN /\ IF isLocked THEN RadioUnlock(wifiUp) ELSE PerformRemoteLock
              /\ streak' = StreakAfter(isLocked', isDisabled', failedAttempts')
         ELSE IF CountsAsViolation
           THEN /\ RadioViolation
                /\ streak' = IF Locked /\ streak >= 0 THEN streak + 1 ELSE -1
           ELSE /\ effects' = <<>>
                /\ UNCHANGED <<isLocked, isDisabled, failedAttempts, nvs, streak>>
  /\ pc' = "dispatch"
  /\ UNCHANGED <<storeOk, pressed, buzzer, held>>
  /\ UNCHANGED fobVars

(* ---------------------------------------------------------------------- *)
(* The rest of loop(): one presentation step, chosen by the flags          *)
(* ---------------------------------------------------------------------- *)
\* triggerSystemLockdown(): draws the breach screens, then never returns
TriggerSystemLockdown ==
  /\ pc = "dispatch"
  /\ isDisabled
  /\ pc' = "lockdown"
  /\ effects' = <<"oled:SECURITY BREACH", "lcd:!! SECURITY !!">>
  /\ UNCHANGED <<isLocked, isDisabled, failedAttempts, nvs, storeOk, pressed,
                 received, buzzer, streak, held>>
  /\ UNCHANGED fobVars
  /\ UNCHANGED linkVars

\* one half-period of the while(true) of triggerSystemLockdown()
LockdownAlert ==
  /\ pc = "lockdown"
  /\ buzzer' = ~buzzer
  /\ UNCHANGED <<isLocked, isDisabled, failedAttempts, nvs, storeOk, pc,
                 pressed, received, effects, streak, held>>
  /\ UNCHANGED fobVars
  /\ UNCHANGED linkVars

\* showLockScreen()
ShowLockScreen_ClearsCount ==
  /\ pc = "dispatch"
  /\ ~isDisabled
  /\ isLocked
  /\ pc' = "button"
  /\ effects' = <<"oled:SYSTEM SECURE">>
  /\ failedAttempts' = 0
  /\ UNCHANGED <<isLocked, isDisabled, nvs, storeOk, pressed,
                 received, buzzer, streak, held>>
  /\ UNCHANGED fobVars
  /\ UNCHANGED linkVars

ShowLockScreen ==
  /\ pc = "dispatch"
  /\ ~isDisabled
  /\ isLocked
  /\ pc' = "button"
  /\ effects' = <<"oled:SYSTEM SECURE">>
                \o (IF failedAttempts > 0 THEN <<"oled:Violations">> ELSE <<>>)
  /\ UNCHANGED <<isLocked, isDisabled, failedAttempts, nvs, storeOk, pressed,
                 received, buzzer, streak, held>>
  /\ UNCHANGED fobVars
  /\ UNCHANGED linkVars

\* runSecureMonitor()
RunSecureMonitor ==
  /\ pc = "dispatch"
  /\ ~isDisabled
  /\ ~isLocked
  /\ pc' = "button"
  /\ effects' = <<"oled:dashboard">>
  /\ UNCHANGED <<isLocked, isDisabled, failedAttempts, nvs, storeOk, pressed,
                 received, buzzer, streak, held>>
  /\ UNCHANGED fobVars
  /\ UNCHANGED linkVars

(* ---------------------------------------------------------------------- *)
(* The NVS partition starts or stops committing writes                     *)
(* ---------------------------------------------------------------------- *)
ToggleStore ==
  /\ storeOk' = ~storeOk
  /\ UNCHANGED <<isLocked, isDisabled, failedAttempts, nvs, pc, pressed,
                 received, effects, buzzer, streak, held>>
  /\ UNCHANGED fobVars
  /\ UNCHANGED linkVars

(* ---------------------------------------------------------------------- *)
(* The key fob: loop() of src/Key_FOB_ESP.ino                              *)
(* ---------------------------------------------------------------------- *)
\* LoRa.print("admin")
FobKey_Capital == <<"A", "d", "m", "i", "n">>
FobKey == <<"a", "d", "m", "i", "n">>

\* input.trim() on the console line
FobTrim(s) == TrimRight(TrimLeft(s))

\* The packets METHOD 1 sends for a press whose wait loop polled LOW
\* holdPolls times: the send precedes the wait loop
FobButtonPackets_PerPoll(holdPolls) == [i \in 1..(1 + holdPolls) |-> FobKey]
FobButtonPackets(holdPolls) == <<FobKey>>

\* The packets METHOD 2 sends for a console line
FobConsolePackets(line) ==
  IF Len(FobTrim(line)) > 0 THEN <<FobTrim(line)>> ELSE <<>>

\* The radio link from the fob to the station: LoRa.endPacket() puts the
\* packet on the air with no acknowledgement and no retry; src records the
\* method of the fob that sent it.  A packet sent while MaxAir packets are
\* on the air is lost at once.
OnAir(packets, src) ==
  SubSeq(air \o [i \in 1..Len(packets) |-> [body |-> packets[i], src |-> src]],
         1, IF Len(air) + Len(packets) <= MaxAir THEN Len(air) + Len(packets)
                                                ELSE MaxAir)

\* METHOD 1: low is (BTN_BOOT or BTN_USER reads LOW); the step ends when
\* both are released and the cooldown is over
FobCheckButton(low, holdPolls) ==
  /\ fobPc = "button"
  /\ fobPressed' = low
  /\ fobHeld' = IF low THEN holdPolls ELSE 0
  /\ fobOut' = IF low THEN FobButtonPackets(holdPolls) ELSE <<>>
  /\ fobLine' = <<>>
  /\ fobPc' = "console"
  /\ air' = OnAir(fobOut', "button")
  /\ UNCHANGED rxSrc
  /\ UNCHANGED stationVars

\* METHOD 2: line is what Serial.readStringUntil returns
FobCheckConsole(line) ==
  /\ fobPc = "console"
  /\ fobLine' = line
  /\ fobOut' = FobConsolePackets(line)
  /\ fobPressed' = FALSE
  /\ fobHeld' = 0
  /\ fobPc' = "button"
  /\ air' = OnAir(fobOut', "console")
  /\ UNCHANGED rxSrc
  /\ UNCHANGED stationVars

\* A packet of the fob is lost on the way: the station never learns of it
Lose(i) ==
  /\ i \in 1..Len(air)
  /\ air' = SubSeq(air, 1, i - 1) \o SubSeq(air, i + 1, Len(air))
  /\ UNCHANGED rxSrc
  /\ UNCHANGED stationVars
  /\ UNCHANGED fobVars

\* checkLoRaPassword() when the oldest packet of the fob on the air reaches
\* the station unaltered: parsePacket() returns its length, LoRa.read() its
\* bytes
ReceiveFromFob(wifiUp) ==
  /\ air # <<>>
  /\ CheckLoRaPassword(Head(air).body, wifiUp)
  /\ air' = Tail(air)
  /\ rxSrc' = Head(air).src

\* checkLoRaPassword() when no packet of the fob reaches the station in this
\* tick: parsePacket() returns 0 (payload <<>>) or the length of a packet
\* of another sender
ReceiveOther(payload, wifiUp) ==
  /\ CheckLoRaPassword(payload, wifiUp)
  /\ rxSrc' = IF Len(payload) = 0 THEN "none" ELSE "other"
  /\ UNCHANGED air

(* ---------------------------------------------------------------------- *)
(* Specifications                                                          *)
(* ---------------------------------------------------------------------- *)
Next ==
  \/ Restart
  \/ \E bootLow \in BOOLEAN : Setup(bootLow)
  \/ \E bootLow \in BOOLEAN, userLow \in BOOLEAN, wifiUp \in BOOLEAN,
        holdPolls \in 0..MaxHold :
       CheckManualButton(bootLow, userLow, wifiUp, holdPolls)
  \/ \E payload \in Payloads, wifiUp \in BOOLEAN : ReceiveOther(payload, wifiUp)
  \/ \E wifiUp \in BOOLEAN : ReceiveFromFob(wifiUp)
  \/ \E i \in 1..MaxAir : Lose(i)
  \/ TriggerSystemLockdown
  \/ LockdownAlert
  \/ ShowLockScreen
  \/ RunSecureMonitor
  \/ \E low \in BOOLEAN, holdPolls \in 0..MaxHold : FobCheckButton(low, holdPolls)
  \/ \E line \in ConsoleLines : FobCheckConsole(line)

\* Writes to the store always commit
Spec == Init /\ [][Next]_vars

NextF == Next \/ ToggleStore

\* Writes to the store may fail
SpecF == Init /\ [][NextF]_vars

\* What the fob can put on the air
FobBodies ==
  {FobKey} \cup ({FobTrim(line) : line \in ConsoleLines} \ {<<>>})

TypeOK ==
  /\ isLocked \in BOOLEAN
  /\ isDisabled \in BOOLEAN
  /\ failedAttempts \in 0..MaxFails
  /\ nvs \in -1..MaxFails
  /\ storeOk \in BOOLEAN
  /\ pc \in {"setup", "button", "radio", "dispatch", "lockdown"}
  /\ pressed \in BOOLEAN
  /\ received \in Payloads \cup FobBodies
  /\ buzzer \in BOOLEAN
  /\ streak \in -1..MaxFails
  /\ held \in 0..MaxHold
  /\ fobPc \in {"button", "console"}
  /\ fobPressed \in BOOLEAN
  /\ fobHeld \in 0..MaxHold
  /\ fobLine \in ConsoleLines
  /\ Len(fobOut) <= 1
  /\ Len(air) <= MaxAir
  /\ \A i \in 1..Len(air) :
       /\ air[i].body \in FobBodies
       /\ air[i].src \in {"button", "console"}
       /\ air[i].src = "button" => air[i].body = FobKey
  /\ rxSrc \in {"none", "other", "button", "console"}

(* ---------------------------------------------------------------------- *)
(* Steps, as seen from a pair of states                                    *)
(* ---------------------------------------------------------------------- *)
SetupStep        == pc = "setup" /\ pc' = "button"
FactoryResetStep == SetupStep /\ pressed'
ButtonPressStep  == pc = "button" /\ pc' = "radio" /\ pressed'
RadioStep        == pc = "radio" /\ pc' = "dispatch"
RadioMatchStep   == RadioStep /\ Matches(received')
RadioWrongStep   == RadioStep /\ Len(received') > 0 /\ ~Matches(received')

Has(log, e) == \E i \in 1..Len(log) : log[i] = e

(* ---------------------------------------------------------------------- *)
(* C1: once the persisted counter has reached MAX_ATTEMPTS, no step other  *)
(* than the boot-time factory reset brings it below MAX_ATTEMPTS, and      *)
(* every boot that finds it there starts Disabled.                         *)
(* ---------------------------------------------------------------------- *)
C1_LockdownSurvives ==
  [][(Persisted >= MAX_ATTEMPTS /\ ~FactoryResetStep)
       => /\ Persisted' >= MAX_ATTEMPTS
          /\ (SetupStep => Disabled')]_vars

(* ---------------------------------------------------------------------- *)
(* C2: counting from Locked{0}, the machine is still Locked{k} after k < 3 *)
(* non-matching packets, is Disabled after the third, and no step of the   *)
(* same boot session leaves Disabled.                                      *)
(* ---------------------------------------------------------------------- *)
C2_ThreeStrikes ==
  /\ [](streak \in 0..(MAX_ATTEMPTS - 1) => Locked /\ failedAttempts = streak)
  /\ [](streak >= MAX_ATTEMPTS => Disabled)
  /\ [][(Disabled /\ pc' # "setup") => Disabled']_vars

C2_Witness ==
  /\ streak = MAX_ATTEMPTS
  /\ Disabled
  /\ pc = "lockdown"
  /\ ~Matches(received)

(* ---------------------------------------------------------------------- *)
(* C3: setup() without factory reset, on a persisted counter c, ends in    *)
(* Locked{c} when c < 3 and in Disabled{c} when c >= 3, with               *)
(* failedAttempts = c and the store untouched.                             *)
(* ---------------------------------------------------------------------- *)
C3_RestartInvariance ==
  [][(SetupStep /\ ~FactoryResetStep)
       => /\ failedAttempts' = Persisted
          /\ nvs' = nvs
          /\ (Persisted < MAX_ATTEMPTS => Locked')
          /\ (Persisted >= MAX_ATTEMPTS => Disabled')
          /\ ~Unlocked']_vars

C3_Witness ==
  /\ pc = "button"
  /\ ~pressed
  /\ Head(effects) = "getInt"
  /\ Disabled
  /\ failedAttempts = MAX_ATTEMPTS
  /\ Persisted = MAX_ATTEMPTS

(* ---------------------------------------------------------------------- *)
(* C4: a packet equal to the credential, handled in Locked{c} with         *)
(* c in 0..2, leaves the machine Unlocked with failedAttempts = 0 and the  *)
(* persisted counter 0.                                                    *)
(* ---------------------------------------------------------------------- *)
C4_RadioUnlock ==
  [][(RadioMatchStep /\ Locked /\ failedAttempts \in 0..(MAX_ATTEMPTS - 1))
       => /\ Unlocked'
          /\ failedAttempts' = 0
          /\ Persisted' = 0]_vars

C4_Witness ==
  /\ pc = "dispatch"
  /\ Matches(received)
  /\ Has(effects, "lcd:>> ACCESS GRANTED")
  /\ Unlocked
  /\ failedAttempts = 0
  /\ nvs = 0

(* ---------------------------------------------------------------------- *)
(* C5: a packet equal to the credential, handled while Unlocked, leaves    *)
(* the machine Locked with failedAttempts = 0.                             *)
(* ---------------------------------------------------------------------- *)
C5_RadioLock ==
  [][(RadioMatchStep /\ Unlocked) => (Locked' /\ failedAttempts' = 0)]_vars

C5_Witness ==
  /\ pc = "dispatch"
  /\ Matches(received)
  /\ Has(effects, "lcd:>> SYSTEM LOCKED")
  /\ Locked
  /\ failedAttempts = 0

(* ---------------------------------------------------------------------- *)
(* C6: a button press handled in Locked{c}, c in 0..2, leaves the machine  *)
(* Unlocked with failedAttempts = 0 and the persisted counter 0; a button  *)
(* press handled while Unlocked leaves it Locked{0}.                       *)
(* ---------------------------------------------------------------------- *)
C6_ButtonToggle ==
  [][ButtonPressStep
       => /\ (Locked /\ failedAttempts \in 0..(MAX_ATTEMPTS - 1))
               => (Unlocked' /\ failedAttempts' = 0 /\ Persisted' = 0)
          /\ Unlocked => (Locked' /\ failedAttempts' = 0)]_vars

C6_Witness ==
  /\ pc = "radio"
  /\ pressed
  /\ Has(effects, "lcd:>> MANUAL UNLOCK")
  /\ Unlocked
  /\ failedAttempts = 0
  /\ nvs = 0

(* ---------------------------------------------------------------------- *)
(* C7: a button press handled while Disabled changes neither isLocked,     *)
(* failedAttempts nor the persisted counter.                               *)
(* ---------------------------------------------------------------------- *)
C7_ButtonIgnoredWhenDisabled ==
  [][(ButtonPressStep /\ Disabled)
       => UNCHANGED <<isLocked, isDisabled, failedAttempts, nvs>>]_vars

(* ---------------------------------------------------------------------- *)
(* C8: a packet handled while Disabled, matching or not, changes neither   *)
(* the flags, failedAttempts nor the persisted counter.                    *)
(* ---------------------------------------------------------------------- *)
C8_RadioIgnoredWhenDisabled ==
  [][(RadioStep /\ Disabled)
       => UNCHANGED <<isLocked, isDisabled, failedAttempts, nvs>>]_vars

(* ---------------------------------------------------------------------- *)
(* C9: a non-matching packet handled while Unlocked changes neither the    *)
(* flags, failedAttempts nor the persisted counter.                        *)
(* ---------------------------------------------------------------------- *)
C9_WrongIgnoredWhenUnlocked ==
  [][(RadioWrongStep /\ Unlocked)
       => (Unlocked' /\ UNCHANGED <<isLocked, isDisabled, failedAttempts, nvs>>)]_vars

C9_Witness ==
  /\ pc = "dispatch"
  /\ Len(received) > 0
  /\ ~Matches(received)
  /\ Unlocked
  /\ effects = <<>>

(* ---------------------------------------------------------------------- *)
(* C10: setup() with BOOT held ends in Locked{0} with the persisted        *)
(* counter 0, whatever the counter was, 3 or more included.                *)
(* ---------------------------------------------------------------------- *)
C10_FactoryReset ==
  [][FactoryResetStep
       => (Locked' /\ failedAttempts' = 0 /\ Persisted' = 0)]_vars

C10_Witness ==
  /\ pc = "button"
  /\ pressed
  /\ Has(effects, "clear")
  /\ Locked
  /\ failedAttempts = 0
  /\ nvs = -1

(* ---------------------------------------------------------------------- *)
(* C11: in every state the machine is Disabled exactly when                *)
(* failedAttempts >= MAX_ATTEMPTS.                                         *)
(* ---------------------------------------------------------------------- *)
C11_DisabledIffMax == isDisabled <=> (failedAttempts >= MAX_ATTEMPTS)

(* ---------------------------------------------------------------------- *)
(* C12: a non-matching packet handled while Locked adds exactly 1 to the   *)
(* in-memory counter; within a session that counter goes down only to 0;   *)
(* and the counter, in memory or persisted, is set to 0 only by steps of   *)
(* the named kinds.                                                        *)
(* ---------------------------------------------------------------------- *)
\* the step lowers the counter of the running session
LoweredInMemory == pc # "setup" /\ pc' # "setup" /\ failedAttempts' < failedAttempts

\* the step clears a non-zero persisted counter
ClearedInStore == Persisted # 0 /\ Persisted' = 0

\* C12 as claimed: only a credential match and the factory reset clear it
C12_OnlyMatchOrResetClears ==
  [][/\ (RadioWrongStep /\ Locked) => failedAttempts' = failedAttempts + 1
     /\ LoweredInMemory => (failedAttempts' = 0 /\ RadioMatchStep)
     /\ ClearedInStore => (RadioMatchStep \/ FactoryResetStep)]_vars

\* C12 as amended: the button unlock clears it too
C12_CounterMonotone ==
  [][/\ (RadioWrongStep /\ Locked) => failedAttempts' = failedAttempts + 1
     /\ LoweredInMemory
          => (failedAttempts' = 0 /\ isLocked /\ (RadioMatchStep \/ ButtonPressStep))
     /\ ClearedInStore
          => \/ isLocked /\ (RadioMatchStep \/ ButtonPressStep)
             \/ FactoryResetStep]_vars

C12_Witness ==
  /\ pc = "dispatch"
  /\ Len(received) > 0
  /\ ~Matches(received)
  /\ Locked
  /\ failedAttempts = MAX_ATTEMPTS - 1
  /\ effects = <<"putInt">>

(* ---------------------------------------------------------------------- *)
(* C13: the in-memory counter equals the persisted counter in every state  *)
(* of a running session, store writes failing or not.                      *)
(* ---------------------------------------------------------------------- *)
C13_MemoryEqualsStore == pc # "setup" => failedAttempts = Persisted

(* ---------------------------------------------------------------------- *)
(* Notifications: the LCD lines that announce a transition                 *)
(* ---------------------------------------------------------------------- *)
IsNotification(e) ==
  e \in { "lcd:>> ACCESS GRANTED", "lcd:>> MANUAL UNLOCK",
          "lcd:>> SYSTEM LOCKED", "lcd:!! SECURITY !!" }

\* the kind of notification an LCD line is
KindOf(e) ==
  CASE e = "lcd:>> ACCESS GRANTED" -> "AccessGranted"
    [] e = "lcd:>> MANUAL UNLOCK"  -> "ManualUnlock"
    [] e = "lcd:>> SYSTEM LOCKED"  -> "RemoteLocked"
    [] e = "lcd:!! SECURITY !!"    -> "LockdownTriggered"

\* the notifications a step emitted, in order
Notes(log) ==
  LET sel == SelectSeq(log, IsNotification)
  IN  [i \in 1..Len(sel) |-> KindOf(sel[i])]

(* ---------------------------------------------------------------------- *)
(* C14: each accepted transition emits exactly one notification, of its    *)
(* own kind: AccessGranted, RemoteLocked, ManualUnlock, ManualLock, and    *)
(* LockdownTriggered when loop() finds the machine Disabled.               *)
(* ---------------------------------------------------------------------- *)
C14_OneNotificationOfItsKind ==
  [][/\ (RadioStep /\ Locked /\ Unlocked') => Notes(effects') = <<"AccessGranted">>
     /\ (RadioStep /\ Unlocked /\ Locked') => Notes(effects') = <<"RemoteLocked">>
     /\ (ButtonPressStep /\ Locked /\ Unlocked') => Notes(effects') = <<"ManualUnlock">>
     /\ (ButtonPressStep /\ Unlocked /\ Locked') => Notes(effects') = <<"ManualLock">>
     /\ (pc = "dispatch" /\ pc' = "lockdown")
          => Notes(effects') = <<"LockdownTriggered">>]_vars

(* ---------------------------------------------------------------------- *)
(* C15: a step that changes the counter writes it to the store, no step    *)
(* writes the store after it has shown its notification, and whenever a    *)
(* notification has been shown the persisted counter equals                *)
(* failedAttempts.                                                         *)
(* ---------------------------------------------------------------------- *)
C15_PersistBeforeNotify ==
  /\ [](\A i \in 1..Len(effects) :
          IsNotification(effects[i])
            => /\ \A j \in 1..Len(effects) : effects[j] = "putInt" => j < i
               /\ Persisted = failedAttempts)
  /\ [][(pc \in {"button", "radio"} /\ pc' # "setup"
           /\ failedAttempts' # failedAttempts)
          => Has(effects', "putInt")]_vars

C15_Witness ==
  /\ pc = "dispatch"
  /\ Len(effects) >= 2
  /\ effects[1] = "putInt"
  /\ effects[2] = "lcd:>> ACCESS GRANTED"
  /\ Persisted = failedAttempts
  /\ nvs = 0

(* ---------------------------------------------------------------------- *)
(* C16: the presentation steps (lock screen, dashboard, lockdown screens   *)
(* and alert loop) change neither flag nor counter; within a session only  *)
(* the two handlers do.                                                    *)
(* ---------------------------------------------------------------------- *)
C16_OnlyHandlersMutate ==
  [][(pc \in {"dispatch", "lockdown"} /\ pc' # "setup")
       => UNCHANGED <<isLocked, isDisabled, failedAttempts, nvs>>]_vars

C16_Witness ==
  /\ pc = "button"
  /\ effects = <<"oled:SYSTEM SECURE", "oled:Violations">>
  /\ Locked
  /\ failedAttempts = MAX_ATTEMPTS - 1
  /\ Persisted = MAX_ATTEMPTS - 1

(* ---------------------------------------------------------------------- *)
(* C17: a payload is handled as the credential exactly when it is "admin"  *)
(* between any leading and trailing whitespace, case-sensitively;          *)
(* " admin\n" is, and "Admin", "admin1", "adm in" and an all-whitespace    *)
(* payload are handled as non-matching (a violation while Locked).         *)
(* ---------------------------------------------------------------------- *)
\* p is whitespace, then the characters a-d-m-i-n, then whitespace
IsPaddedAdmin(p) ==
  \E a \in 0..Len(p) :
    /\ a + 5 <= Len(p)
    /\ \A k \in 1..a : p[k] \in Whitespace
    /\ <<p[a + 1], p[a + 2], p[a + 3], p[a + 4], p[a + 5]>>
         = <<"a", "d", "m", "i", "n">>
    /\ \A k \in (a + 6)..Len(p) : p[k] \in Whitespace

ClaimedMatching ==
  { <<"a", "d", "m", "i", "n">>,
    <<" ", "a", "d", "m", "i", "n", "\n">> }

ClaimedNonMatching ==
  { <<"A", "d", "m", "i", "n">>,
    <<"a", "d", "m", "i", "n", "1">>,
    <<"a", "d", "m", " ", "i", "n">>,
    <<" ", "\n">> }

\* the step took the credential branch of checkLoRaPassword()
TreatedAsMatch ==
  Has(effects', "lcd:>> ACCESS GRANTED") \/ Has(effects', "lcd:>> SYSTEM LOCKED")

C17_TrimmedExactMatch ==
  [][(RadioStep /\ Len(received') > 0)
       => /\ TreatedAsMatch <=> IsPaddedAdmin(received')
          /\ received' \in ClaimedMatching => TreatedAsMatch
          /\ received' \in ClaimedNonMatching => ~TreatedAsMatch
          /\ (~TreatedAsMatch /\ isLocked)
               => failedAttempts' = failedAttempts + 1]_vars

C17_Witness ==
  /\ pc = "dispatch"
  /\ received = <<" ", "a", "d", "m", "i", "n", "\n">>
  /\ Has(effects, "lcd:>> ACCESS GRANTED")
  /\ Unlocked

(* ---------------------------------------------------------------------- *)
(* C18: a fob button press, however long held, sends exactly one packet    *)
(* and its body is the station's credential; a console line that is not    *)
(* blank sends exactly one packet whose body is the line without its       *)
(* surrounding whitespace, a blank line sends none; what a step sends      *)
(* depends on nothing but what it read.                                    *)
(* ---------------------------------------------------------------------- *)
FobButtonStep  == fobPc = "button" /\ fobPc' = "console"
FobConsoleStep == fobPc = "console" /\ fobPc' = "button"

\* line is whitespace only (or empty)
AllBlank(line) == \A k \in 1..Len(line) : line[k] \in Whitespace

\* p is line without its leading and trailing whitespace, and is not empty
IsStripped(p, line) ==
  /\ p # <<>>
  /\ p[1] \notin Whitespace
  /\ p[Len(p)] \notin Whitespace
  /\ \E a \in 0..Len(line) :
       /\ a + Len(p) <= Len(line)
       /\ \A k \in 1..a : line[k] \in Whitespace
       /\ \A k \in 1..Len(p) : line[a + k] = p[k]
       /\ \A k \in (a + Len(p) + 1)..Len(line) : line[k] \in Whitespace

C19_OneTogglePerPress ==
  [][/\ ButtonPressStep
          => (isLocked' = ~isLocked /\ Len(Notes(effects')) = 1)
     /\ (pc = "button" /\ pc' = "radio" /\ ~pressed')
          => (isLocked' = isLocked /\ effects' = <<>>)
     /\ (pc = "button" /\ pc' # pc) => pc' \in {"radio", "setup"}]_vars

C19_Witness ==
  /\ pc = "radio"
  /\ pressed
  /\ held = MaxHold
  /\ Notes(effects) = <<"RemoteLocked">>
  /\ Locked

(* ---------------------------------------------------------------------- *)
(* C20: in a tick whose button poll unlocked the machine from Locked{c},   *)
(* c < 3, a matching packet handled next leaves it Locked{0}, and a        *)
(* non-matching packet leaves it Unlocked with the counter 0 in memory and *)
(* in the store and with no violation written.                             *)
(* ---------------------------------------------------------------------- *)
\* the button poll of this tick has just unlocked the machine
ButtonJustUnlocked ==
  /\ pc = "radio"
  /\ pressed
  /\ Has(effects, "lcd:>> MANUAL UNLOCK")
  /\ ~isDisabled

C20_ButtonThenRadio ==
  [][(ButtonJustUnlocked /\ RadioStep /\ Len(received') > 0)
       => IF Matches(received')
            THEN Locked' /\ failedAttempts' = 0 /\ Persisted' = 0
            ELSE /\ Unlocked'
                 /\ failedAttempts' = 0
                 /\ Persisted' = 0
                 /\ ~Has(effects', "putInt")]_vars

C20_Witness ==
  /\ pc = "dispatch"
  /\ pressed
  /\ Matches(received)
  /\ Has(effects, "lcd:>> SYSTEM LOCKED")
  /\ Locked
  /\ failedAttempts = 0
  /\ nvs = 0

(* ---------------------------------------------------------------------- *)
(* C21: whenever the machine is Unlocked, failedAttempts is 0 and the      *)
(* persisted counter is 0; a power loss while Unlocked leaves the          *)
(* persisted counter 0, and setup() on a persisted counter 0 ends in       *)
(* Locked{0}.                                                              *)
(* ---------------------------------------------------------------------- *)
C21_UnlockedMeansZero ==
  /\ [](Unlocked => (failedAttempts = 0 /\ Persisted = 0))
  /\ [][(Unlocked /\ pc' = "setup") => Persisted' = 0]_vars
  /\ [][(SetupStep /\ Persisted = 0)
          => (Locked' /\ failedAttempts' = 0 /\ Persisted' = 0)]_vars

C21_Witness ==
  /\ pc = "button"
  /\ effects = <<"oled:dashboard">>
  /\ Unlocked
  /\ failedAttempts = 0
  /\ nvs = 0

(* ---------------------------------------------------------------------- *)
(* C22: over a link that may lose packets of the fob but not alter them, a *)
(* packet of a fob button press that reaches checkLoRaPassword() matches   *)
(* the password and never raises failedAttempts or the persisted counter;  *)
(* read while the station is Locked it leaves it Unlocked, read while      *)
(* Unlocked it leaves it Locked; a step that loses a packet changes        *)
(* nothing of the station.                                                 *)
(* ---------------------------------------------------------------------- *)
FobButtonDelivered == RadioStep /\ rxSrc' = "button"
LoseStep == Len(air') < Len(air) /\ pc' = pc

C22_FobButtonEndToEnd ==
  [][/\ FobButtonDelivered
          => /\ Matches(received')
             /\ failedAttempts' <= failedAttempts
             /\ Persisted' <= Persisted
             /\ Locked => Unlocked'
             /\ Unlocked => Locked'
     /\ LoseStep => UNCHANGED stationVars]_vars

C22_Witness ==
  /\ pc = "dispatch"
  /\ rxSrc = "button"
  /\ received = consolePassword
  /\ Unlocked
  /\ Has(effects, "lcd:>> ACCESS GRANTED")
  /\ fobOut = <<>>
  /\ air = <<>>

====
